---- MODULE Spec2Model ----
(***************************************************************************)
(* Model of the NETCONF session engine of netconf/message.go: the          *)
(* handshake of NewSession, the dispatch loop handleInput with its         *)
(* teardown, the submission path ExecuteAsync / Execute / Subscribe, the   *)
(* channel pool and the response correlation queue.                        *)
(*                                                                         *)
(* Goroutines are processes with a program counter: the constructor        *)
(* (ctorpc), the dispatch loop (lpc), one goroutine per call (cpc) and one *)
(* delivery task per decoded rpc-reply (tasks).  Unbuffered channels are   *)
(* rendezvous: a send and its receive are one step.  An unrecovered Go     *)
(* panic ends the program: once panicked is set no action is enabled.      *)
(***************************************************************************)
EXTENDS Integers, Sequences, FiniteSets, TLC

\* ------------------------------------------------------------------ bounds
MaxCalls == 3
FullCalls == 2
MaxNotifs == 2
MaxUnsol == 1
MaxUnexp == 1
MaxHellos == 2
MaxCaps == 2

Calls == 1..MaxCalls
\* The calls of the specification with every operation; Calls are those of the
\* specification of the request/reply path alone.
SomeCalls == 1..FullCalls

\* ------------------------------------------------------- values of the code
\* The nil channel (the zero value popRespChan returns on an empty queue, and
\* the initial subchan).
NilChan == 0
\* No value received yet / the nil *RPCReply a closed channel yields.
NoReply == 0 - 2
NilReply == 0 - 1

CapBase10 == "urn:ietf:params:netconf:base:1.0"
CapBase11 == "urn:ietf:params:netconf:base:1.1"
\* A capability URI that is neither base:1.0 nor base:1.1 (peer input).
CapOther == "urn:ietf:params:netconf:capability:other"
DefaultCapabilities == <<CapBase10>>

CapUris == {CapBase10, CapBase11, CapOther}

RECURSIVE SeqsUpTo(_, _)
SeqsUpTo(S, n) ==
    IF n = 0 THEN {<<>>}
    ELSE LET shorter == SeqsUpTo(S, n - 1)
         IN shorter \cup {Append(s, x) : s \in shorter, x \in S}

\* Capability lists a server hello may carry.
AllHellos == SeqsUpTo(CapUris, MaxCaps)
\* The two kinds of server hello, used where the capability list itself is
\* not what is examined.
MainHellos == {<<CapBase10>>, <<CapBase10, CapBase11>>}

Range(s) == {s[i] : i \in 1..Len(s)}

VARIABLES
    tstate,          \* transport: "open", or "closed" (by Close(), by the peer, or broken)
    framing,         \* framing codec mode: "eom" or "chunked"
    wire,            \* requests written to the transport, in write order
    hellochanClosed, \* close(si.hellochan) has run
    hello,           \* si.hello: <<>> is nil, <<caps>> a hello with capability list caps
    helloresp,       \* NewSession local: capabilities of the client hello
    chunkedFraming,  \* NewSession local
    sentHello,       \* <<>> or <<caps>>: the client hello written to the transport
    ctorpc,          \* NewSession: "wait","negotiate","encode","framing","returned","failed","panic"
    pool,            \* si.pool
    responseq,       \* si.responseq
    subchan,         \* si.subchan (NilChan or a notification channel)
    closedch,        \* the reply channels that are closed
    nclosed,         \* the notification channels that are closed
    nchans,          \* number of reply channels made so far (make(chan *RPCReply))
    reqLock,         \* si.reqLock: 0 free, else the call holding it
    lpc,             \* handleInput: "token","hello","notify","closing","drain","done"
    lhello,          \* the hello the loop is sending on hellochan (<<>> none)
    lnotif,          \* the notification the loop is sending: <<>> or
                     \*   <<n, channel, registrations at dispatch>>
    tasks,           \* delivery goroutines blocked in ch <- r: set of <<ch, reply>>
    cpc,             \* per call: "idle","lock","enc","sub","recv","rel","done"
    cop,             \* per call: "none","exec","sub","async"
    rchan,           \* per call: its delivery channel
    res,             \* per call: NoReply, NilReply or the name of the reply received
    cerr,            \* per call: the call returned a non-nil error
    answered,        \* requests the peer has replied to
    nunsol,          \* unsolicited replies sent by the peer
    nnotif,          \* notifications sent by the peer
    nhello,          \* hellos sent by the peer
    nunexp,          \* unexpected top-level elements sent by the peer
    inOrder,         \* history: every reply so far answered the oldest unanswered written request
    anyFail,         \* history: some request write failed
    pushHist,        \* history: channels pushed on the queue, in push order
    handed,          \* history: <<ch, reply>> for each reply that popped a queue entry, in decode order
    subHist,         \* history: channels registered by Subscribe, in registration order
    ndel,            \* history: notifications received by consumers, each
                     \*   <<n, ch, registrations at dispatch, subscriber has its reply,
                     \*     registrations at delivery>>
    ndrop,           \* history: notifications dropped: <<n, registrations at the drop>>
    exitq,           \* history: the queue when the loop exited (<<>> before)
    exithi,          \* history: number of pushes made when the loop exited
    exitsub,         \* history: subchan as closeChannels read it
    overlap,         \* history: two Execute/Subscribe calls were in progress at once
    panicked         \* "none" or the runtime panic that ended the program

vars == <<tstate, framing, wire, hellochanClosed, hello, helloresp, chunkedFraming,
          sentHello, ctorpc, pool, responseq, subchan, closedch, nclosed, nchans,
          reqLock, lpc, lhello, lnotif, tasks, cpc, cop, rchan, res, cerr,
          answered, nunsol, nnotif, nhello, nunexp, inOrder, anyFail, pushHist, handed,
          subHist, ndel, ndrop, exitq, exithi, exitsub, overlap, panicked>>

ctorVars == <<hello, helloresp, chunkedFraming, sentHello, ctorpc, framing>>
callVars == <<cpc, cop, rchan, res, cerr>>
peerVars == <<answered, nunsol, nnotif, nhello, nunexp>>
loopVars == <<lpc, lhello, lnotif>>
histVars == <<inOrder, anyFail, pushHist, handed, subHist, ndel, ndrop, exitq, exithi,
              exitsub, overlap>>

\* ------------------------------------------------------------ pure helpers

\* The capability scan that looks at the first capability only.
HasBase11First(caps) == caps # <<>> /\ Head(caps) = CapBase11

\* for _, capability := range sess.hello.Capabilities { if capability == CapBase11 ...
RECURSIVE HasBase11(_)
HasBase11(caps) ==
    IF caps = <<>> THEN FALSE
    ELSE IF Head(caps) = CapBase11 THEN TRUE
    ELSE HasBase11(Tail(caps))

\* The capabilities of the client hello NewSession builds for a server hello.
HelloRespCaps(caps) ==
    IF HasBase11(caps) THEN <<CapBase11>> ELSE DefaultCapabilities

\* allocChan that returns the last pool entry without removing it.
allocChanNoPop(p, made) ==
    IF Len(p) = 0
    THEN [pool |-> p, ch |-> made + 1, made |-> made + 1]
    ELSE [pool |-> p, ch |-> p[Len(p)], made |-> made]

\* allocChan: pop the last pool entry, or make a fresh channel.
allocChan(p, made) ==
    IF Len(p) = 0
    THEN [pool |-> p, ch |-> made + 1, made |-> made + 1]
    ELSE [pool |-> SubSeq(p, 1, Len(p) - 1), ch |-> p[Len(p)], made |-> made]

\* relChan: push the channel back on the pool.
relChan(p, ch) == Append(p, ch)

\* pushRespChan that puts the channel at the head of the queue.
pushRespChanFront(q, ch) == <<ch>> \o q

\* pushRespChan: append to the correlation queue.
pushRespChan(q, ch) == Append(q, ch)

\* popRespChan that removes and returns the newest entry.
popRespChanLast(q) ==
    IF Len(q) > 0
    THEN [q |-> SubSeq(q, 1, Len(q) - 1), ch |-> q[Len(q)]]
    ELSE [q |-> q, ch |-> NilChan]

\* popRespChan: remove and return the head, or nil on an empty queue.
popRespChan(q) ==
    IF Len(q) > 0
    THEN [q |-> Tail(q), ch |-> Head(q)]
    ELSE [q |-> q, ch |-> NilChan]

\* The oldest written request the peer has not answered (0 if none).
RECURSIVE FirstUnanswered(_, _)
FirstUnanswered(w, ans) ==
    IF w = <<>> THEN 0
    ELSE IF Head(w) \notin ans THEN Head(w)
    ELSE FirstUnanswered(Tail(w), ans)

\* ------------------------------------------------------------------- Init
Init ==
    /\ tstate = "open"
    /\ framing = "eom"
    /\ wire = <<>>
    /\ hellochanClosed = FALSE
    /\ hello = <<>>
    /\ helloresp = DefaultCapabilities
    /\ chunkedFraming = FALSE
    /\ sentHello = <<>>
    /\ ctorpc = "wait"
    /\ pool = <<>>
    /\ responseq = <<>>
    /\ subchan = NilChan
    /\ closedch = {}
    /\ nclosed = {}
    /\ nchans = 0
    /\ reqLock = 0
    /\ lpc = "token"
    /\ lhello = <<>>
    /\ lnotif = <<>>
    /\ tasks = {}
    /\ cpc = [c \in Calls |-> "idle"]
    /\ cop = [c \in Calls |-> "none"]
    /\ rchan = [c \in Calls |-> NilChan]
    /\ res = [c \in Calls |-> NoReply]
    /\ cerr = [c \in Calls |-> FALSE]
    /\ answered = {}
    /\ nunsol = 0
    /\ nnotif = 0
    /\ nhello = 0
    /\ nunexp = 0
    /\ inOrder = TRUE
    /\ anyFail = FALSE
    /\ pushHist = <<>>
    /\ handed = <<>>
    /\ subHist = <<>>
    /\ ndel = <<>>
    /\ ndrop = <<>>
    /\ exitq = <<>>
    /\ exithi = 0
    /\ exitsub = NilChan
    /\ overlap = FALSE
    /\ panicked = "none"

\* -------------------------------------------------------------- NewSession

\* sess.hello = <-sess.hellochan: a rendezvous with the loop's send of line 167,
\* or the zero value (nil) once the channel is closed.
CtorRecvHello ==
    /\ panicked = "none"
    /\ ctorpc = "wait"
    /\ \/ /\ lpc = "hello"
          /\ hello' = lhello
          /\ lhello' = <<>>
          /\ lpc' = "token"
       \/ /\ hellochanClosed
          /\ hello' = <<>>
          /\ UNCHANGED <<lhello, lpc>>
    /\ ctorpc' = "negotiate"
    /\ UNCHANGED <<tstate, framing, wire, hellochanClosed, helloresp, chunkedFraming,
                   sentHello, pool, responseq, subchan, closedch, nclosed, nchans,
                   reqLock, lnotif, tasks, callVars, peerVars, histVars, panicked>>

\* A NewSession that switches the framing codec as soon as it has negotiated it,
\* before it writes its hello.
CtorNegotiateSwitching ==
    /\ panicked = "none"
    /\ ctorpc = "negotiate"
    /\ IF hello = <<>>
       THEN /\ panicked' = "nil_deref"
            /\ ctorpc' = "panic"
            /\ UNCHANGED <<helloresp, chunkedFraming, framing>>
       ELSE /\ helloresp' = HelloRespCaps(hello[1])
            /\ chunkedFraming' = HasBase11(hello[1])
            /\ framing' = IF HasBase11(hello[1]) THEN "chunked" ELSE framing
            /\ ctorpc' = "encode"
            /\ UNCHANGED panicked
    /\ UNCHANGED <<tstate, wire, hellochanClosed, hello, sentHello, pool,
                   responseq, subchan, closedch, nclosed, nchans, reqLock, loopVars,
                   tasks, callVars, peerVars, histVars>>

\* Lines 82-90: the loop over sess.hello.Capabilities; a nil sess.hello is a nil
\* pointer dereference.
CtorNegotiate ==
    /\ panicked = "none"
    /\ ctorpc = "negotiate"
    /\ IF hello = <<>>
       THEN /\ panicked' = "nil_deref"
            /\ ctorpc' = "panic"
            /\ UNCHANGED <<helloresp, chunkedFraming>>
       ELSE /\ helloresp' = HelloRespCaps(hello[1])
            /\ chunkedFraming' = HasBase11(hello[1])
            /\ ctorpc' = "encode"
            /\ UNCHANGED panicked
    /\ UNCHANGED <<tstate, framing, wire, hellochanClosed, hello, sentHello, pool,
                   responseq, subchan, closedch, nclosed, nchans, reqLock, loopVars,
                   tasks, callVars, peerVars, histVars>>

\* Lines 92-95: err := sess.enc.encode(helloresp). A write on a transport that is
\* not open fails; on an open one it succeeds or fails (encode or write error).
CtorEncode ==
    /\ panicked = "none"
    /\ ctorpc = "encode"
    /\ \E ok \in BOOLEAN :
        /\ ok => tstate = "open"
        /\ IF ok
           THEN /\ sentHello' = Append(sentHello, helloresp)
                /\ ctorpc' = "framing"
           ELSE /\ ctorpc' = "failed"
                /\ UNCHANGED sentHello
    /\ UNCHANGED <<tstate, framing, wire, hellochanClosed, hello, helloresp,
                   chunkedFraming, pool, responseq, subchan, closedch, nclosed, nchans,
                   reqLock, loopVars, tasks, callVars, peerVars, histVars, panicked>>

\* Lines 97-101: switch the framing codec if negotiated, return the session.
CtorFraming ==
    /\ panicked = "none"
    /\ ctorpc = "framing"
    /\ framing' = IF chunkedFraming THEN "chunked" ELSE framing
    /\ ctorpc' = "returned"
    /\ UNCHANGED <<tstate, wire, hellochanClosed, hello, helloresp, chunkedFraming,
                   sentHello, pool, responseq, subchan, closedch, nclosed, nchans,
                   reqLock, loopVars, tasks, callVars, peerVars, histVars, panicked>>

\* ------------------------------------------------------------- handleInput

\* Lines 151-157: Token() fails because the transport is closed or has failed.
LoopTokenError ==
    /\ panicked = "none"
    /\ lpc = "token"
    /\ tstate # "open"
    /\ lpc' = "closing"
    /\ exitq' = responseq
    /\ exithi' = Len(pushHist)
    /\ UNCHANGED <<tstate, framing, wire, hellochanClosed, ctorVars, pool, responseq,
                   subchan, closedch, nclosed, nchans, reqLock, lhello, lnotif, tasks,
                   callVars, peerVars, inOrder, anyFail, pushHist, handed, subHist,
                   ndel, ndrop, exitsub, overlap, panicked>>

\* Lines 151-157, 163-166, 170-173: malformed input on an open transport: Token()
\* returns an error, or DecodeElement of a hello or rpc-reply does.
LoopMalformed ==
    /\ panicked = "none"
    /\ lpc = "token"
    /\ tstate = "open"
    /\ lpc' = "closing"
    /\ exitq' = responseq
    /\ exithi' = Len(pushHist)
    /\ UNCHANGED <<tstate, framing, wire, hellochanClosed, ctorVars, pool, responseq,
                   subchan, closedch, nclosed, nchans, reqLock, lhello, lnotif, tasks,
                   callVars, peerVars, inOrder, anyFail, pushHist, handed, subHist,
                   ndel, ndrop, exitsub, overlap, panicked>>

\* Lines 161-167: a <hello> is decoded; the loop then blocks in si.hellochan <- &hello.
LoopHello(S, most) ==
    /\ panicked = "none"
    /\ lpc = "token"
    /\ tstate = "open"
    /\ nhello < most
    /\ \E caps \in S : lhello' = <<caps>>
    /\ lpc' = "hello"
    /\ nhello' = nhello + 1
    /\ UNCHANGED <<tstate, framing, wire, hellochanClosed, ctorVars, pool, responseq,
                   subchan, closedch, nclosed, nchans, reqLock, lnotif, tasks, callVars,
                   answered, nunsol, nnotif, nunexp, histVars, panicked>>

\* A reply is named by the request it answers; the k-th reply that answers no
\* request is named MaxCalls + k.
Unsolicited(re) == re > MaxCalls

\* The replies the peer can send: one to each written request not yet answered,
\* and unsolicited ones.
PeerReplies ==
    (Range(wire) \ answered)
        \cup (IF nunsol < MaxUnsol THEN {MaxCalls + nunsol + 1} ELSE {})

\* A dispatch loop that ends when it decodes a reply and finds the queue empty.
LoopReplyEndsOnEmpty ==
    /\ panicked = "none"
    /\ lpc = "token"
    /\ tstate = "open"
    /\ \E re \in PeerReplies :
        LET p == popRespChan(responseq) IN
        /\ responseq' = p.q
        /\ tasks' = tasks \cup {<<p.ch, re>>}
        /\ handed' = IF Len(responseq) > 0 THEN Append(handed, <<p.ch, re>>) ELSE handed
        /\ inOrder' = (inOrder /\ re = FirstUnanswered(wire, answered))
        /\ IF Unsolicited(re)
           THEN nunsol' = nunsol + 1 /\ UNCHANGED answered
           ELSE answered' = answered \cup {re} /\ UNCHANGED nunsol
    /\ lpc' = IF Len(responseq) > 0 THEN lpc ELSE "closing"
    /\ exitq' = IF Len(responseq) > 0 THEN exitq ELSE responseq
    /\ exithi' = IF Len(responseq) > 0 THEN exithi ELSE Len(pushHist)
    /\ UNCHANGED <<tstate, framing, wire, hellochanClosed, ctorVars, pool, subchan,
                   closedch, nclosed, nchans, reqLock, lhello, lnotif, callVars, nnotif,
                   nhello, nunexp, anyFail, pushHist, subHist, ndel, ndrop, exitsub,
                   overlap, panicked>>

\* Lines 168-178: an <rpc-reply> is decoded, the queue head popped and a delivery
\* goroutine spawned for it.
LoopReply ==
    /\ panicked = "none"
    /\ lpc = "token"
    /\ tstate = "open"
    /\ \E re \in PeerReplies :
        LET p == popRespChan(responseq) IN
        /\ responseq' = p.q
        /\ tasks' = tasks \cup {<<p.ch, re>>}
        /\ handed' = IF Len(responseq) > 0 THEN Append(handed, <<p.ch, re>>) ELSE handed
        /\ inOrder' = (inOrder /\ re = FirstUnanswered(wire, answered))
        /\ IF Unsolicited(re)
           THEN nunsol' = nunsol + 1 /\ UNCHANGED answered
           ELSE answered' = answered \cup {re} /\ UNCHANGED nunsol
    /\ UNCHANGED <<tstate, framing, wire, hellochanClosed, ctorVars, pool, subchan,
                   closedch, nclosed, nchans, reqLock, loopVars, callVars, nnotif,
                   nhello, nunexp, anyFail, pushHist, subHist, ndel, ndrop, exitq,
                   exithi, exitsub, overlap, panicked>>

\* Lines 180-188: a <notification> is decoded; if si.subchan is not nil the loop
\* blocks in si.subchan <- ..., else the notification is dropped.  si.subchan is
\* read without a lock; both reads see the value last written.
LoopNotification ==
    /\ panicked = "none"
    /\ lpc = "token"
    /\ tstate = "open"
    /\ nnotif < MaxNotifs
    /\ nnotif' = nnotif + 1
    /\ IF subchan # NilChan
       THEN /\ lnotif' = <<nnotif + 1, subchan, Len(subHist)>>
            /\ lpc' = "notify"
            /\ UNCHANGED ndrop
       ELSE /\ ndrop' = Append(ndrop, <<nnotif + 1, Len(subHist)>>)
            /\ UNCHANGED <<lnotif, lpc>>
    /\ UNCHANGED <<tstate, framing, wire, hellochanClosed, ctorVars, pool, responseq,
                   subchan, closedch, nclosed, nchans, reqLock, lhello, tasks, callVars,
                   answered, nunsol, nhello, nunexp, inOrder, anyFail, pushHist,
                   handed, subHist, ndel, exitq, exithi, exitsub, overlap, panicked>>

\* A dispatch loop that ends when it meets an element it does not expect.
LoopUnexpectedFatal ==
    /\ panicked = "none"
    /\ lpc = "token"
    /\ tstate = "open"
    /\ nunexp < MaxUnexp
    /\ nunexp' = nunexp + 1
    /\ lpc' = "closing"
    /\ exitq' = responseq
    /\ exithi' = Len(pushHist)
    /\ UNCHANGED <<tstate, framing, wire, hellochanClosed, ctorVars, pool, responseq,
                   subchan, closedch, nclosed, nchans, reqLock, lhello, lnotif, tasks,
                   callVars, answered, nunsol, nnotif, nhello, inOrder, anyFail,
                   pushHist, handed, subHist, ndel, ndrop, exitsub, overlap, panicked>>

\* Lines 190-191: any other element is printed and the loop continues.
LoopUnexpected ==
    /\ panicked = "none"
    /\ lpc = "token"
    /\ tstate = "open"
    /\ nunexp < MaxUnexp
    /\ nunexp' = nunexp + 1
    /\ UNCHANGED <<tstate, framing, wire, hellochanClosed, ctorVars, pool, responseq,
                   subchan, closedch, nclosed, nchans, reqLock, loopVars, tasks,
                   callVars, answered, nunsol, nnotif, nhello, histVars, panicked>>

\* Line 187: the subscriber's consumer receives the notification the loop is
\* sending (the rendezvous of the unbuffered channel).
NotifDeliver ==
    /\ panicked = "none"
    /\ lpc = "notify"
    /\ ndel' = Append(ndel, <<lnotif[1], lnotif[2], lnotif[3],
                               res[lnotif[2]] # NoReply, Len(subHist)>>)
    /\ lnotif' = <<>>
    /\ lpc' = "token"
    /\ UNCHANGED <<tstate, framing, wire, hellochanClosed, ctorVars, pool, responseq,
                   subchan, closedch, nclosed, nchans, reqLock, lhello, tasks, callVars,
                   peerVars, inOrder, anyFail, pushHist, handed, subHist, ndrop,
                   exitq, exithi, exitsub, overlap, panicked>>

\* closeChannels, lines 199-202: close the handshake channel and the subscriber
\* channel if one is registered.
LoopCloseChannels ==
    /\ panicked = "none"
    /\ lpc = "closing"
    /\ hellochanClosed' = TRUE
    /\ nclosed' = IF subchan # NilChan THEN nclosed \cup {subchan} ELSE nclosed
    /\ exitsub' = subchan
    /\ lpc' = "drain"
    /\ UNCHANGED <<tstate, framing, wire, ctorVars, pool, responseq, subchan, closedch,
                   nchans, reqLock, lhello, lnotif, tasks, callVars, peerVars, inOrder,
                   anyFail, pushHist, handed, subHist, ndel, ndrop, exitq, exithi,
                   overlap, panicked>>

\* closeAllResponseChannels: one turn of its loop. Closing a closed channel panics.
closeAllResponseChannels ==
    /\ panicked = "none"
    /\ lpc = "drain"
    /\ LET p == popRespChan(responseq) IN
        /\ responseq' = p.q
        /\ IF p.ch = NilChan
           THEN /\ lpc' = "done"
                /\ UNCHANGED <<closedch, panicked>>
           ELSE IF p.ch \in closedch
           THEN /\ panicked' = "close_closed"
                /\ UNCHANGED <<closedch, lpc>>
           ELSE /\ closedch' = closedch \cup {p.ch}
                /\ UNCHANGED <<lpc, panicked>>
    /\ UNCHANGED <<tstate, framing, wire, hellochanClosed, ctorVars, pool, subchan,
                   nclosed, nchans, reqLock, lhello, lnotif, tasks, callVars, peerVars,
                   histVars>>

\* Line 177, ch <- r on a channel that has been closed: the delivery goroutine panics.
TaskSendClosed ==
    /\ panicked = "none"
    /\ \E t \in tasks : t[1] \in closedch
    /\ panicked' = "send_closed"
    /\ UNCHANGED <<tstate, framing, wire, hellochanClosed, ctorVars, pool, responseq,
                   subchan, closedch, nclosed, nchans, reqLock, loopVars, tasks,
                   callVars, peerVars, histVars>>

\* ------------------------------------------------- Execute, Subscribe, Async

\* Calls are numbered in the order in which they start.
CanStart(c) ==
    /\ ctorpc = "returned"
    /\ cpc[c] = "idle"
    /\ IF c = 1 THEN TRUE ELSE cpc[c - 1] # "idle"

InProgress(d) == cop[d] \in {"exec", "sub"} /\ cpc[d] \notin {"idle", "done"}

\* Execute line 106 and Subscribe line 128: rchan := si.allocChan().
StartPooled(c, op) ==
    /\ panicked = "none"
    /\ CanStart(c)
    /\ LET a == allocChan(pool, nchans) IN
        /\ pool' = a.pool
        /\ nchans' = a.made
        /\ rchan' = [rchan EXCEPT ![c] = a.ch]
    /\ cop' = [cop EXCEPT ![c] = op]
    /\ cpc' = [cpc EXCEPT ![c] = "lock"]
    /\ overlap' = (overlap \/ \E d \in Calls \ {c} : InProgress(d))
    /\ UNCHANGED <<tstate, framing, wire, hellochanClosed, ctorVars, responseq, subchan,
                   closedch, nclosed, reqLock, loopVars, tasks, res, cerr, peerVars,
                   inOrder, anyFail, pushHist, handed, subHist, ndel, ndrop, exitq,
                   exithi, exitsub, panicked>>

Execute(c) == StartPooled(c, "exec")

Subscribe(c) == StartPooled(c, "sub")

\* A direct ExecuteAsync call: the caller supplies the channel, one it has just
\* made or one it has passed to an earlier ExecuteAsync call.
ExecuteAsync(c) ==
    /\ panicked = "none"
    /\ CanStart(c)
    /\ \E ch \in {nchans + 1} \cup {rchan[d] : d \in {e \in Calls : cop[e] = "async"}} :
        /\ rchan' = [rchan EXCEPT ![c] = ch]
        /\ nchans' = IF ch = nchans + 1 THEN nchans + 1 ELSE nchans
    /\ cop' = [cop EXCEPT ![c] = "async"]
    /\ cpc' = [cpc EXCEPT ![c] = "lock"]
    /\ UNCHANGED <<tstate, framing, wire, hellochanClosed, ctorVars, pool, responseq,
                   subchan, closedch, nclosed, reqLock, loopVars, tasks, res, cerr,
                   peerVars, histVars, panicked>>

\* An ExecuteAsync that enqueues and goes on to write without waiting for the
\* submission lock.
SubmitPushNoLock(c) ==
    /\ panicked = "none"
    /\ cpc[c] = "lock"
    /\ reqLock' = c
    /\ responseq' = pushRespChan(responseq, rchan[c])
    /\ pushHist' = Append(pushHist, rchan[c])
    /\ cpc' = [cpc EXCEPT ![c] = "enc"]
    /\ UNCHANGED <<tstate, framing, wire, hellochanClosed, ctorVars, pool, subchan,
                   closedch, nclosed, nchans, loopVars, tasks, cop, rchan, res, cerr,
                   peerVars, inOrder, anyFail, handed, subHist, ndel, ndrop, exitq,
                   exithi, exitsub, overlap, panicked>>

\* ExecuteAsync lines 118-122: take the submission lock and enqueue the channel.
SubmitPush(c) ==
    /\ panicked = "none"
    /\ cpc[c] = "lock"
    /\ reqLock = 0
    /\ reqLock' = c
    /\ responseq' = pushRespChan(responseq, rchan[c])
    /\ pushHist' = Append(pushHist, rchan[c])
    /\ cpc' = [cpc EXCEPT ![c] = "enc"]
    /\ UNCHANGED <<tstate, framing, wire, hellochanClosed, ctorVars, pool, subchan,
                   closedch, nclosed, nchans, loopVars, tasks, cop, rchan, res, cerr,
                   peerVars, inOrder, anyFail, handed, subHist, ndel, ndrop, exitq,
                   exithi, exitsub, overlap, panicked>>

\* Where a call goes when ExecuteAsync returns: Execute lines 110-113, Subscribe
\* lines 132-135, and the caller of a direct ExecuteAsync.
AfterSubmit(op, ok) ==
    IF ok
    THEN (IF op = "sub" THEN "sub" ELSE "recv")
    ELSE (IF op = "async" THEN "done" ELSE "rel")

\* ExecuteAsync line 124 and the deferred unlock: write the request.
SubmitEncode(c) ==
    /\ panicked = "none"
    /\ cpc[c] = "enc"
    /\ reqLock = c
    /\ \E ok \in BOOLEAN :
        /\ ok => tstate = "open"
        /\ wire' = IF ok THEN Append(wire, c) ELSE wire
        /\ cerr' = [cerr EXCEPT ![c] = ~ok]
        /\ anyFail' = (anyFail \/ ~ok)
        /\ cpc' = [cpc EXCEPT ![c] = AfterSubmit(cop[c], ok)]
    /\ reqLock' = 0
    /\ UNCHANGED <<tstate, framing, hellochanClosed, ctorVars, pool, responseq, subchan,
                   closedch, nclosed, nchans, loopVars, tasks, cop, rchan, res, peerVars,
                   inOrder, pushHist, handed, subHist, ndel, ndrop, exitq, exithi,
                   exitsub, overlap, panicked>>

\* A Subscribe that registers its channel only while none is registered.
SubscribeRegisterFirstWins(c) ==
    /\ panicked = "none"
    /\ cpc[c] = "sub"
    /\ subchan' = IF subchan = NilChan THEN c ELSE subchan
    /\ subHist' = Append(subHist, c)
    /\ cpc' = [cpc EXCEPT ![c] = "recv"]
    /\ UNCHANGED <<tstate, framing, wire, hellochanClosed, ctorVars, pool, responseq,
                   closedch, nclosed, nchans, reqLock, loopVars, tasks, cop, rchan, res,
                   cerr, peerVars, inOrder, anyFail, pushHist, handed, ndel, ndrop,
                   exitq, exithi, exitsub, overlap, panicked>>

\* Subscribe line 135: si.subchan = nchan. The notification channel of call c is
\* named c. The write takes no lock; the loop's reads of si.subchan see the value
\* last written.
SubscribeRegister(c) ==
    /\ panicked = "none"
    /\ cpc[c] = "sub"
    /\ subchan' = c
    /\ subHist' = Append(subHist, c)
    /\ cpc' = [cpc EXCEPT ![c] = "recv"]
    /\ UNCHANGED <<tstate, framing, wire, hellochanClosed, ctorVars, pool, responseq,
                   closedch, nclosed, nchans, reqLock, loopVars, tasks, cop, rchan, res,
                   cerr, peerVars, inOrder, anyFail, pushHist, handed, ndel, ndrop,
                   exitq, exithi, exitsub, overlap, panicked>>

\* Execute line 113, Subscribe line 136, and the read of a direct caller:
\* reply := <-rchan. A rendezvous with a delivery goroutine sending on the channel
\* (line 177), or nil once the channel is closed.
Receive(c) ==
    /\ panicked = "none"
    /\ cpc[c] = "recv"
    /\ \/ /\ rchan[c] \notin closedch
          /\ \E t \in tasks :
              /\ t[1] = rchan[c]
              /\ tasks' = tasks \ {t}
              /\ res' = [res EXCEPT ![c] = t[2]]
       \/ /\ rchan[c] \in closedch
          /\ res' = [res EXCEPT ![c] = NilReply]
          /\ UNCHANGED tasks
    /\ cpc' = [cpc EXCEPT ![c] = IF cop[c] = "async" THEN "done" ELSE "rel"]
    /\ UNCHANGED <<tstate, framing, wire, hellochanClosed, ctorVars, pool, responseq,
                   subchan, closedch, nclosed, nchans, reqLock, loopVars, cop, rchan,
                   cerr, peerVars, histVars, panicked>>

\* The deferred si.relChan(rchan) of Execute (line 107) and Subscribe (line 129).
Release(c) ==
    /\ panicked = "none"
    /\ cpc[c] = "rel"
    /\ pool' = relChan(pool, rchan[c])
    /\ cpc' = [cpc EXCEPT ![c] = "done"]
    /\ UNCHANGED <<tstate, framing, wire, hellochanClosed, ctorVars, responseq, subchan,
                   closedch, nclosed, nchans, reqLock, loopVars, tasks, cop, rchan, res,
                   cerr, peerVars, histVars, panicked>>

\* Close, lines 140-145: close the transport.
Close ==
    /\ panicked = "none"
    /\ ctorpc = "returned"
    /\ tstate = "open"
    /\ tstate' = "closed"
    /\ UNCHANGED <<framing, wire, hellochanClosed, hello, helloresp, chunkedFraming,
                   sentHello, ctorpc, pool, responseq, subchan, closedch, nclosed,
                   nchans, reqLock, loopVars, tasks, callVars, peerVars, histVars,
                   panicked>>

\* The peer ends the stream or the connection breaks.
TransportFail ==
    /\ panicked = "none"
    /\ tstate = "open"
    /\ tstate' = "closed"
    /\ UNCHANGED <<framing, wire, hellochanClosed, hello, helloresp, chunkedFraming,
                   sentHello, ctorpc, pool, responseq, subchan, closedch, nclosed,
                   nchans, reqLock, loopVars, tasks, callVars, peerVars, histVars,
                   panicked>>

\* ---------------------------------------------------------- specifications

\* The steps of the constructor and of the dispatch loop that every
\* specification has.
CoreStep ==
    \/ CtorRecvHello
    \/ CtorNegotiate
    \/ CtorEncode
    \/ CtorFraming
    \/ LoopTokenError
    \/ LoopMalformed
    \/ LoopReply
    \/ LoopCloseChannels
    \/ closeAllResponseChannels
    \/ TaskSendClosed
    \/ Close
    \/ TransportFail

\* The steps of a call that goes through the request/reply path.
CallStep(c) ==
    \/ Execute(c)
    \/ ExecuteAsync(c)
    \/ SubmitPush(c)
    \/ SubmitEncode(c)
    \/ Receive(c)
    \/ Release(c)

\* Every operation, FullCalls calls.
Next ==
    \/ CoreStep
    \/ LoopHello(MainHellos, MaxHellos)
    \/ LoopNotification
    \/ NotifDeliver
    \/ LoopUnexpected
    \/ \E c \in SomeCalls : CallStep(c)
    \/ \E c \in SomeCalls : Subscribe(c)
    \/ \E c \in SomeCalls : SubscribeRegister(c)

Spec == Init /\ [][Next]_vars

\* The request/reply path with MaxCalls calls: a peer that sends one base:1.0
\* hello, no notifications and no unexpected elements, callers that use Execute
\* and ExecuteAsync.
NextRPC ==
    \/ CoreStep
    \/ LoopHello({DefaultCapabilities}, 1)
    \/ \E c \in Calls : CallStep(c)

SpecRPC == Init /\ [][NextRPC]_vars

\* The handshake alone, for every capability list of up to MaxCaps entries.
NextHS ==
    \/ CtorRecvHello
    \/ CtorNegotiate
    \/ CtorEncode
    \/ CtorFraming
    \/ LoopHello(AllHellos, MaxHellos)
    \/ LoopTokenError
    \/ LoopMalformed
    \/ LoopUnexpected
    \/ LoopCloseChannels
    \/ closeAllResponseChannels
    \/ Close
    \/ TransportFail

SpecHS == Init /\ [][NextHS]_vars

\* The steps NewSession takes by itself once it has been called.
CtorProgress ==
    \/ CtorRecvHello
    \/ CtorNegotiate
    \/ CtorEncode
    \/ CtorFraming

\* The steps handleInput takes by itself: handing the hello to a waiting
\* NewSession, returning from Token() on a transport that is closed, and the
\* teardown.  What the peer sends, and when, is not among them.
LoopProgress ==
    \/ CtorRecvHello
    \/ LoopTokenError
    \/ LoopCloseChannels
    \/ closeAllResponseChannels

\* The steps the session's code takes inside a call once the call has started:
\* the submission, the registration, the receive of Execute and Subscribe, the
\* release.  The read of a direct ExecuteAsync caller is the caller's own.
CallProgress(c) ==
    \/ SubmitPush(c)
    \/ SubmitEncode(c)
    \/ SubscribeRegister(c)
    \/ (cop[c] \in {"exec", "sub"} /\ Receive(c))
    \/ Release(c)

\* Every goroutine of the session that can take a step eventually takes one.
\* Nothing is assumed of the environment: the peer may stay silent, the
\* connection may stay up, Close may never be called, a subscriber or a direct
\* ExecuteAsync caller may never read its channel, no further call may start.
FairSpec ==
    /\ Spec
    /\ WF_vars(CtorProgress)
    /\ WF_vars(LoopProgress)
    /\ WF_vars(TaskSendClosed)
    /\ \A c \in SomeCalls : WF_vars(CallProgress(c))

\* ------------------------------------------------------------------ claims

Started(c) == cop[c] # "none"
GotReply(c) == res[c] \notin {NoReply, NilReply}

\* The direct ExecuteAsync calls each have a delivery channel of their own.
OwnChannels ==
    \A c, d \in Calls :
        (c # d /\ cop[c] = "async" /\ cop[d] = "async") => rchan[c] # rchan[d]

\* C1: if every request write succeeded, each ExecuteAsync call has its own
\* channel and the peer has answered in write order, then every reply decoded is
\* addressed to the channel of the request it answers and reaches that caller
\* exactly once: it is either still carried by one delivery task for that channel,
\* with the caller not yet served, or it is the reply the caller received.
C1_EachOwnReply ==
    (inOrder /\ ~anyFail /\ OwnChannels) =>
        /\ \A t \in tasks : t[2] \in answered /\ t[1] = rchan[t[2]]
        /\ \A c \in Calls : GotReply(c) => res[c] = c
        /\ \A c \in answered :
              (<<rchan[c], c>> \in tasks /\ res[c] = NoReply)
                  # (res[c] = c /\ \A t \in tasks : t[2] # c)

\* Three ExecuteAsync calls in flight at once, written in an order that is not
\* the order in which they started: two have their own reply, the third reply is
\* on its way.
C1_Witness ==
    /\ inOrder /\ ~anyFail /\ OwnChannels
    /\ \A c \in Calls : cop[c] = "async"
    /\ Len(wire) = MaxCalls /\ wire[1] # 1
    /\ \E c \in Calls :
          /\ cpc[c] = "recv" /\ <<rchan[c], c>> \in tasks
          /\ \A d \in Calls \ {c} : res[d] = d

\* C9: correlation is by position alone: the i-th reply that found an entry in
\* the queue was handed to the i-th channel ever pushed, whatever request it
\* answers, and it was handed once: it is either with a delivery task or with a
\* caller that received it from that channel.
C9_Positional ==
    /\ Len(handed) <= Len(pushHist)
    /\ \A i \in 1..Len(handed) :
          /\ handed[i][1] = pushHist[i]
          /\ (handed[i] \in tasks)
                # (\E c \in Calls : res[c] = handed[i][2] /\ rchan[c] = handed[i][1])

\* The peer answered out of order and nothing else went wrong: a caller holds the
\* reply to the other caller's request.
C9_Witness ==
    /\ ~anyFail /\ nunsol = 0 /\ OwnChannels
    /\ \E c, d \in Calls :
          /\ c # d /\ res[c] = d
          /\ Len(handed) >= 1 /\ handed[1][1] = rchan[c] /\ handed[1][2] = d

RECURSIVE NoDup(_)
NoDup(q) ==
    IF q = <<>> THEN TRUE
    ELSE Head(q) \notin Range(Tail(q)) /\ NoDup(Tail(q))

Completed == {c \in Calls : cop[c] \in {"exec", "sub"} /\ cpc[c] = "done"}

\* C8: the pool freelist never holds a channel twice and never holds more
\* channels than Execute and Subscribe calls have completed; after calls that ran
\* one after the other it holds at most one channel, however many they were.
C8_Pool ==
    /\ NoDup(pool)
    /\ Len(pool) <= Cardinality(Completed)
    /\ ~overlap => Len(pool) <= 1

\* Two calls, one after the other, both completed: the second reused the channel
\* of the first and the pool holds that one channel.
C8_Witness ==
    /\ ~overlap
    /\ Cardinality(Completed) = 2
    /\ \E c, d \in Completed : c # d /\ rchan[c] = rchan[d] /\ pool = <<rchan[c]>>

\* C2: an Execute whose delivery channel was closed by the teardown returns a
\* non-nil error, never a nil reply with a nil error.
C2_ExecuteFailsOnShutdown ==
    \A c \in Calls :
        (cop[c] = "exec" /\ cpc[c] \in {"rel", "done"} /\ res[c] = NilReply) => cerr[c]

\* C3: NewSession never goes on with a nil server hello: once it is past the
\* receive of the hello without one, it has returned an error; a session that is
\* returned has a server hello and has written its client hello.
C3_AbortsCleanly ==
    /\ (ctorpc \notin {"wait", "negotiate"} /\ hello = <<>>) => ctorpc = "failed"
    /\ ctorpc = "returned" => (hello # <<>> /\ sentHello # <<>>)

Blocked(c) ==
    /\ cop[c] \in {"exec", "sub"}
    /\ cpc[c] = "recv"
    /\ panicked = "none"

\* C4: once the transport is closed or has failed, every call blocked in Execute
\* or Subscribe on its delivery channel eventually unblocks.
C4_EventuallyUnblocks ==
    \A c \in SomeCalls : (tstate = "closed" /\ Blocked(c)) ~> ~Blocked(c)

TeardownOver == lpc = "done" \/ panicked = "close_closed"

\* C5: when the teardown that follows the loop's exit is over, every channel that
\* was in the queue at the exit is closed, none of those entries is left in the
\* queue, the handshake channel is closed and so is the subscriber channel that
\* was registered.  Callers of ExecuteAsync that pass one channel to several
\* calls are left aside.
C5_FanOut ==
    (TeardownOver /\ OwnChannels) =>
        /\ \A i \in 1..Len(exitq) : exitq[i] \in closedch
        /\ Len(responseq) <= Len(pushHist) - exithi
        /\ hellochanClosed
        /\ exitsub # NilChan => exitsub \in nclosed

Advertises11(caps) == CapBase11 \in Range(caps)

\* C6: the client hello carries exactly base:1.1 if the server hello lists
\* base:1.1 anywhere and exactly DefaultCapabilities otherwise; the session that
\* is returned has chunked framing in the first case and the framing it started
\* with in the second, and the framing is not touched before.
C6_Negotiation ==
    /\ sentHello # <<>> =>
          /\ hello # <<>>
          /\ sentHello[1] = IF Advertises11(hello[1]) THEN <<CapBase11>>
                            ELSE DefaultCapabilities
    /\ ctorpc = "returned" =>
          /\ sentHello # <<>>
          /\ framing = IF Advertises11(hello[1]) THEN "chunked" ELSE "eom"
    /\ ctorpc # "returned" => framing = "eom"

\* A session negotiated from a hello whose second capability is base:1.1.
C6_Witness ==
    /\ ctorpc = "returned"
    /\ Len(hello[1]) = 2 /\ hello[1][1] = CapOther /\ hello[1][2] = CapBase11
    /\ sentHello = <<(<<CapBase11>>)>>
    /\ framing = "chunked"

\* C7, as amended: the subscriber slot holds the channel of the latest Subscribe;
\* a notification decoded while a channel is registered is not dropped; each
\* notification goes, in arrival order and to one channel only, to the channel
\* that was registered when the loop dispatched it.
C7_Routing ==
    /\ subchan = IF subHist = <<>> THEN NilChan ELSE subHist[Len(subHist)]
    /\ \A i \in 1..Len(ndrop) : ndrop[i][2] = 0
    /\ \A i \in 1..Len(ndel) :
          /\ ndel[i][3] >= 1 /\ ndel[i][2] = subHist[ndel[i][3]]
          /\ \A j \in 1..Len(ndel) : i < j => ndel[i][1] < ndel[j][1]
    /\ lnotif # <<>> =>
          /\ lnotif[3] >= 1 /\ lnotif[2] = subHist[lnotif[3]]
          /\ \A i \in 1..Len(ndel) : ndel[i][1] < lnotif[1]

\* The subscription was replaced mid-stream: notification 1 went to the first
\* channel and notification 2 to the second.
C7_Witness ==
    /\ Len(ndel) = 2 /\ Len(subHist) = 2
    /\ ndel[1][2] = subHist[1] /\ ndel[2][2] = subHist[2]
    /\ subHist[1] # subHist[2]

\* C7 as stated: in addition, no notification is received from a channel after a
\* later Subscribe has replaced it.
C7_NoDeliveryToOldChannel ==
    /\ C7_Routing
    /\ \A i \in 1..Len(ndel) : ndel[i][5] = ndel[i][3]

\* C10: a Subscribe whose submission failed has not registered its channel, and
\* no notification reaches a channel before the Subscribe that supplied it has
\* received its reply.
C10_OnlyIfSuccessful ==
    /\ \A c \in Calls : (cop[c] = "sub" /\ cerr[c]) => c \notin Range(subHist)
    /\ \A i \in 1..Len(ndel) : ndel[i][4]

\* A client hello is written only once the server hello is there, with no client
\* hello written before it, in the default framing, and before any request.
C11_HelloWrite ==
    sentHello' # sentHello =>
        /\ hello # <<>> /\ sentHello = <<>> /\ Len(sentHello') = 1
        /\ framing = "eom" /\ framing' = "eom"
        /\ wire = <<>>

\* The framing changes only from the default to chunked, and only once the
\* client hello has been written.
C11_FramingSwitch ==
    framing' # framing =>
        /\ framing = "eom" /\ framing' = "chunked"
        /\ Len(sentHello) = 1 /\ chunkedFraming

\* A request is written only once the client hello has been written.
C11_RequestWrite == wire' # wire => Len(sentHello) = 1

\* C11: the client hello is written only after the server hello has been
\* received; at most one client hello is ever written and a session that is
\* returned has written exactly one; the framing is switched at most once, to
\* chunked, and only after the client hello went out in the default framing; no
\* rpc request is written before the client hello.
C11_HandshakeOrder ==
    /\ [][C11_HelloWrite /\ C11_FramingSwitch /\ C11_RequestWrite]_vars
    /\ [](Len(sentHello) <= 1)
    /\ [](ctorpc = "returned" => Len(sentHello) = 1)
    /\ []((sentHello # <<>>) => (hello # <<>>))
    /\ []((wire # <<>> \/ framing = "chunked") => Len(sentHello) = 1)

\* A session that negotiated chunked framing and then wrote a request.
C11_Witness ==
    /\ ctorpc = "returned"
    /\ hello # <<>> /\ Len(sentHello) = 1
    /\ framing = "chunked"
    /\ wire # <<>>

LoopRunning == lpc \in {"token", "hello", "notify"} /\ panicked = "none"

NotAnswered(c) == c \notin answered

\* The channels of the requests written and not yet answered, in write order.
PendingWritten ==
    LET u == SelectSeq(wire, NotAnswered)
    IN  [i \in 1..Len(u) |-> rchan[u[i]]]

\* C12: while the dispatch loop runs, the peer has answered in write order and
\* no submission is inside its critical section, the correlation queue is the
\* sequence of the channels of the requests written and not yet answered: one
\* entry per written request, none for a request that was not written.
C12_QueueIsWritten ==
    (reqLock = 0 /\ inOrder /\ LoopRunning) => responseq = PendingWritten

\* C13: no channel of the pool freelist is an entry of the correlation queue.
C13_PooledNotQueued ==
    \A i \in 1..Len(pool) : pool[i] \notin Range(responseq)

\* C14: a call whose write failed has its error and waits for no reply; with a
\* peer that answers in write order, the channel it enqueued is in the queue for
\* as long as the dispatch loop runs and, every channel having been enqueued
\* before the loop left, is closed once the teardown has run to its end.
C14_FailedSlotClosedAtTeardown ==
    \A c \in Calls :
        (cerr[c] /\ inOrder) =>
            /\ cpc[c] \in {"rel", "done"} /\ res[c] = NoReply
            /\ LoopRunning => rchan[c] \in Range(responseq)
            /\ (lpc = "done" /\ exithi = Len(pushHist)) => rchan[c] \in closedch

\* C15: the dispatch loop is never blocked handing a message to a consumer: it
\* is not in the send of a hello with no NewSession waiting to receive it, and
\* it is not in the send of a notification to the subscriber channel.
C15_BlocksOnlyOnRead ==
    /\ ~(lpc = "hello" /\ ctorpc # "wait")
    /\ lpc # "notify"

\* A step that drops a notification or skips an unexpected element: the loop was
\* reading and goes on reading, a notification is dropped only while no channel
\* is registered, and nothing is delivered, sent, popped, pooled, registered or
\* closed.
C16_DropStep ==
    (ndrop' # ndrop \/ nunexp' # nunexp) =>
        /\ lpc = "token" /\ lpc' = "token"
        /\ ndrop' # ndrop => (subchan = NilChan /\ nnotif' = nnotif + 1)
        /\ UNCHANGED <<responseq, pool, subchan, tasks, ndel, lnotif, lhello,
                       closedch, nclosed, hellochanClosed, callVars, panicked>>

\* C16: a notification that arrives while no subscriber channel is registered
\* and an unexpected top-level element are discarded: the step leaves the queue,
\* the pool and the subscriber slot unchanged and the loop at its next read, and
\* a dropped notification is never delivered to, or on its way to, any channel.
C16_Discard ==
    /\ [][C16_DropStep]_vars
    /\ [](\A i \in 1..Len(ndrop) :
            /\ \A j \in 1..Len(ndel) : ndel[j][1] # ndrop[i][1]
            /\ lnotif # <<>> => lnotif[1] # ndrop[i][1])

\* A notification was dropped and an unexpected element skipped while a request
\* was queued; the loop went on and has delivered the next notification.
C16_Witness ==
    /\ ndrop # <<>> /\ nunexp = 1
    /\ responseq # <<>>
    /\ ndel # <<>> /\ ndel[1][1] > ndrop[1][1]

\* The calls that are in the write of their request, and NewSession in the write
\* of its hello.
WritingCalls == {c \in Calls : cpc[c] = "enc"}
CtorWriting == ctorpc = "encode"

\* A request goes on the wire only from the call that holds the submission lock.
C17_RequestWriteLocked ==
    wire' # wire =>
        /\ reqLock \in Calls /\ cpc[reqLock] = "enc"
        /\ wire' = Append(wire, reqLock)

\* The client hello is written by NewSession, with the lock free and no call
\* started.
C17_HelloWriteAlone ==
    sentHello' # sentHello =>
        /\ CtorWriting /\ reqLock = 0
        /\ \A c \in Calls : cpc[c] = "idle"

\* C17: transport writes never overlap: a call in the write of its request
\* holds the submission lock, a request is written only by the holder of the
\* lock, the client hello is written by NewSession before any call has started,
\* and at most one writer is in a write at any time.
C17_WritesNeverOverlap ==
    /\ [][C17_RequestWriteLocked /\ C17_HelloWriteAlone]_vars
    /\ [](\A c \in Calls : cpc[c] = "enc" => reqLock = c)
    /\ [](Cardinality(WritingCalls) + (IF CtorWriting THEN 1 ELSE 0) <= 1)
    /\ []((ctorpc # "returned") => (\A c \in Calls : cpc[c] = "idle"))

\* Two submissions at once: one call is in its write with the lock, the other
\* waits for the lock; the client hello was written before either started.
C17_Witness ==
    \E c, d \in Calls :
        /\ c # d
        /\ cpc[c] = "enc" /\ reqLock = c
        /\ cpc[d] = "lock"
        /\ sentHello # <<>>

LoopExited == lpc \in {"closing", "drain", "done"}

\* C18: once the dispatch loop has exited, every call blocked in Execute or
\* Subscribe on its delivery channel eventually unblocks, whether its channel
\* was enqueued before, during or after the drain of the teardown.
C18_TerminationReachesAll ==
    \A c \in SomeCalls : (LoopExited /\ Blocked(c)) ~> ~Blocked(c)

\* C19: no delivery channel is closed twice and no delivery task sends on a
\* closed channel: the program never ends in either panic.  Already so when
\* each direct ExecuteAsync call has a channel of its own and every channel was
\* enqueued before the dispatch loop left.
C19_ChannelOpsSafe ==
    (OwnChannels /\ exithi = Len(pushHist)) =>
        panicked \notin {"close_closed", "send_closed"}

\* The delivery tasks that hold a reply decoded while the queue was empty: they
\* send on the nil channel popRespChan returned.
NilTasks == {t \in tasks : t[1] = NilChan}

\* A step that decodes a reply while the queue is empty: the queue stays empty,
\* the loop stays at its read, the reply goes to a task on the nil channel and
\* nothing reaches a caller.
C20_EmptyQueueStep ==
    (tasks' # tasks /\ tasks \subseteq tasks' /\ responseq = <<>>) =>
        /\ responseq' = <<>>
        /\ lpc = "token" /\ lpc' = "token"
        /\ \E t \in NilTasks' : tasks' = tasks \cup {t}
        /\ UNCHANGED <<handed, res, cpc, closedch, pool, panicked>>

\* C20: an rpc-reply decoded while the correlation queue is empty leaves the
\* queue empty and the loop at its next read; it stays with a task on the nil
\* channel for ever and no caller receives it; the i-th channel pushed is handed
\* the i-th reply decoded with the queue not empty, never one of those.
C20_UnsolicitedReply ==
    /\ [][C20_EmptyQueueStep /\ NilTasks \subseteq NilTasks']_vars
    /\ [](\A t \in NilTasks : \A c \in Calls : res[c] # t[2])
    /\ [](/\ Len(handed) <= Len(pushHist)
          /\ \A i \in 1..Len(handed) :
                /\ handed[i][1] = pushHist[i]
                /\ <<NilChan, handed[i][2]>> \notin tasks)

\* A reply was decoded while the queue was empty; the one request submitted
\* since is written and queued, and its caller waits for the next reply.
C20_Witness ==
    /\ NilTasks # {}
    /\ Len(pushHist) = 1 /\ Len(responseq) = 1 /\ handed = <<>>
    /\ \E c \in Calls : wire = <<c>> /\ cpc[c] = "recv" /\ res[c] = NoReply

====
